---- MODULE Spec2Model ----
(***************************************************************************)
(* Model of the HTML canvas drawing backend, src/drawing/backend_impl/     *)
(* canvas.rs.  The adapter owns two host handles (canvas, context).  The   *)
(* host side is modelled as the 2D context's observable state together     *)
(* with the list of host calls the last operation issued.                  *)
(*                                                                         *)
(* BackendCoord is (i32, i32).  The i32 width is scaled down to I32Bits    *)
(* bits so that the corner values I32Min / I32Max and the differences      *)
(* that leave the range are within the checker's integers.  Values handed  *)
(* to the host are f64; every `as f64` conversion used here is exact, so   *)
(* host-side numbers are plain integers.                                   *)
(***************************************************************************)
EXTENDS Integers, Sequences, FiniteSets, TLC

VARIABLES
    env,             \* what the host page offers to CanvasBackend::new
    overflowChecks,  \* build profile: TRUE = overflow checks on (debug)
    backend,         \* "None" | "Some": the Option<CanvasBackend> held by the caller
    lookups,         \* host lookups performed by the last new()
    canvas,          \* the canvas element's current width / height attributes
    context,         \* state of the CanvasRenderingContext2d
    last,            \* the last operation called and its arguments
    calls,           \* host context calls issued by the last operation, in order
    painted,         \* what each stroke() / fill() of the last operation rendered
    leftover,        \* history: the current path was non-empty when the last operation began
    result           \* what the last operation returned

vars == <<env, overflowChecks, backend, lookups, canvas, context, last, calls,
          painted, leftover, result>>

-----------------------------------------------------------------------------
(* Bounds of the model *)

I32Bits == 4
MaxPathLen == 3

I32Min == -(2 ^ (I32Bits - 1))
I32Max == 2 ^ (I32Bits - 1) - 1

InI32(n) == I32Min <= n /\ n <= I32Max

\* two's complement wrap-around of an exact integer into the i32 range
I32Wrap(n) == ((n - I32Min) % (2 ^ I32Bits)) + I32Min

-----------------------------------------------------------------------------
(* Input sets *)

Red == [r |-> 255, g |-> 0, b |-> 0, a |-> 10]
HalfBlue == [r |-> 10, g |-> 20, b |-> 30, a |-> 5]
Colors == {Red, HalfBlue}

\* corner pairs covering ordered corners, reversed corners and differences
\* outside the i32 range
Points == {<<0, 0>>, <<I32Max, 2>>, <<-1, I32Min>>}
PathPoints == {<<0, 0>>, <<I32Max, 2>>}
Radii == {3}
FontSizes == {12}
FontNames == {"serif", "Arial"}
Fonts == [size : FontSizes, name : FontNames]
Texts == {"hi"}
HostErrors == {"IndexSizeError"}
ElemIds == {"plot", "legend", "missing"}
\* a canvas element is 300 x 150 until the page says otherwise
DefaultSize == [width |-> 300, height |-> 150]
Sizes == {DefaultSize, [width |-> 640, height |-> 480]}
ContextOutcomes == {"2d", "null", "error", "other"}

RECURSIVE SeqsUpTo(_, _)
SeqsUpTo(S, n) ==
    IF n = 0 THEN {<<>>}
    ELSE LET shorter == SeqsUpTo(S, n - 1)
         IN shorter \cup {Append(s, x) : s \in shorter, x \in S}

Paths == SeqsUpTo(PathPoints, MaxPathLen)

\* the page: which element, if any, each id names
ElementOf(id) ==
    CASE id = "plot" -> "canvas"
      [] id = "legend" -> "div"
      [] OTHER -> "none"

-----------------------------------------------------------------------------
(* Formatting *)

\* Display of an f64 given in tenths: 10 -> "1", 5 -> "0.5"
FmtTenths(t) ==
    IF t % 10 = 0 THEN ToString(t \div 10)
    ELSE ToString(t \div 10) \o "." \o ToString(t % 10)

make_canvas_color(color) ==
    "rgba(" \o ToString(color.r) \o "," \o ToString(color.g) \o ","
            \o ToString(color.b) \o "," \o FmtTenths(color.a) \o ")"

FontString(font) == ToString(font.size) \o "px " \o font.name

TwoPi == "2*PI"

-----------------------------------------------------------------------------
(* Results *)

Ok == [kind |-> "Ok", value |-> "()"]
DrawingError(e) == [kind |-> "DrawingError", value |-> e]
Panic == [kind |-> "Panic", value |-> "attempt to subtract with overflow"]
NoResult == [kind |-> "None", value |-> "()"]

-----------------------------------------------------------------------------
(* The host context.  h = [ctx, calls, painted]; every host call appends   *)
(* itself to calls and changes ctx as the canvas 2D API does.              *)

Call(fn, args) == [fn |-> fn, args |-> args]

InitContext ==
    [fillStyle |-> "#000000", strokeStyle |-> "#000000",
     font |-> "10px sans-serif", textBaseline |-> "alphabetic", path |-> <<>>]

Host(ctx) == [ctx |-> ctx, calls |-> <<>>, painted |-> <<>>]

Log(h, c) == [h EXCEPT !.calls = Append(h.calls, c)]

set_fill_style(h, s) ==
    Log([h EXCEPT !.ctx.fillStyle = s], Call("set_fill_style", <<s>>))

set_stroke_style(h, s) ==
    Log([h EXCEPT !.ctx.strokeStyle = s], Call("set_stroke_style", <<s>>))

set_font(h, s) == Log([h EXCEPT !.ctx.font = s], Call("set_font", <<s>>))

set_text_baseline(h, s) ==
    Log([h EXCEPT !.ctx.textBaseline = s], Call("set_text_baseline", <<s>>))

fill_rect(h, x, y, w, ht) == Log(h, Call("fill_rect", <<x, y, w, ht>>))

stroke_rect(h, x, y, w, ht) == Log(h, Call("stroke_rect", <<x, y, w, ht>>))

begin_path(h) == Log([h EXCEPT !.ctx.path = <<>>], Call("begin_path", <<>>))

move_to(h, x, y) ==
    Log([h EXCEPT !.ctx.path = Append(@, Call("move_to", <<x, y>>))],
        Call("move_to", <<x, y>>))

line_to(h, x, y) ==
    Log([h EXCEPT !.ctx.path = Append(@, Call("line_to", <<x, y>>))],
        Call("line_to", <<x, y>>))

\* a successful arc adds itself to the current path
arc(h, x, y, radius, from, to) ==
    Log([h EXCEPT !.ctx.path = Append(@, Call("arc", <<x, y, radius, from, to>>))],
        Call("arc", <<x, y, radius, from, to>>))

\* an arc the host rejects is called, throws, and leaves the path alone
arc_failed(h, x, y, radius, from, to) ==
    Log(h, Call("arc", <<x, y, radius, from, to>>))

\* stroke and fill render the current path and keep it
stroke(h) ==
    Log([h EXCEPT !.painted = Append(@, h.ctx.path)], Call("stroke", <<>>))

fill(h) ==
    Log([h EXCEPT !.painted = Append(@, h.ctx.path)], Call("fill", <<>>))

fill_text(h, text, x, y) == Log(h, Call("fill_text", <<text, x, y>>))

Done(h, res) == [h |-> h, result |-> res]

-----------------------------------------------------------------------------
(* i32 subtraction as the build compiles it: with overflow checks a result *)
(* outside the range panics, without them it wraps.                        *)

I32Sub(a, b, checks) ==
    IF InI32(a - b) THEN [panic |-> FALSE, value |-> a - b]
    ELSE IF checks THEN [panic |-> TRUE, value |-> 0]
    ELSE [panic |-> FALSE, value |-> I32Wrap(a - b)]

-----------------------------------------------------------------------------
(* CanvasBackend::new: each `?` returns None at the first failing step.    *)

\* variant: the context value is cast without being checked
new_unchecked_context(elem_id, e) ==
    LET all == <<"window", "document", "get_element_by_id", "dyn_into_canvas",
                 "get_context_2d", "dyn_into_context">>
        none(n) == [backend |-> "None", lookups |-> SubSeq(all, 1, n)]
    IN  IF ~e.window THEN none(1)
        ELSE IF ~e.document THEN none(2)
        ELSE IF ElementOf(elem_id) = "none" THEN none(3)
        ELSE IF ElementOf(elem_id) # "canvas" THEN none(4)
        ELSE IF e.context \in {"error", "null"} THEN none(5)
        ELSE [backend |-> "Some", lookups |-> all]

new(elem_id, e) ==
    LET l1 == <<"window">>
        l2 == Append(l1, "document")
        l3 == Append(l2, "get_element_by_id")
        l4 == Append(l3, "dyn_into_canvas")
        l5 == Append(l4, "get_context_2d")
        l6 == Append(l5, "dyn_into_context")
        none(l) == [backend |-> "None", lookups |-> l]
    IN  IF ~e.window THEN none(l1)
        ELSE IF ~e.document THEN none(l2)
        ELSE IF ElementOf(elem_id) = "none" THEN none(l3)
        ELSE IF ElementOf(elem_id) # "canvas" THEN none(l4)
        ELSE IF e.context \in {"error", "null"} THEN none(l5)
        ELSE IF e.context # "2d" THEN none(l6)
        ELSE [backend |-> "Some", lookups |-> l6]

-----------------------------------------------------------------------------
(* The DrawingBackend operations as functions of the context state and the *)
(* arguments.  hostErr is "none" when the fallible host call succeeds and  *)
(* the value the host throws otherwise.                                    *)

\* variant: the size read once at construction is returned
get_size_cached(cv) ==
    [kind |-> "Size", value |-> <<DefaultSize.width, DefaultSize.height>>]

get_size(cv) == [kind |-> "Size", value |-> <<cv.width, cv.height>>]

\* variant: open starts a new path
open_resets_path(ctx) == Done(begin_path(Host(ctx)), Ok)

open(ctx) == Done(Host(ctx), Ok)

close(ctx) == Done(Host(ctx), Ok)

draw_pixel(ctx, point, color) ==
    LET h1 == set_fill_style(Host(ctx), make_canvas_color(color))
        h2 == fill_rect(h1, point[1], point[2], 1, 1)
    IN  Done(h2, Ok)

\* variant: the segment is added to whatever path is current
draw_line_no_begin(ctx, from, to, color) ==
    LET h1 == set_stroke_style(Host(ctx), make_canvas_color(color))
        h3 == move_to(h1, from[1], from[2])
        h4 == line_to(h3, to[1], to[2])
        h5 == stroke(h4)
    IN  Done(h5, Ok)

draw_line(ctx, from, to, color) ==
    LET h1 == set_stroke_style(Host(ctx), make_canvas_color(color))
        h2 == begin_path(h1)
        h3 == move_to(h2, from[1], from[2])
        h4 == line_to(h3, to[1], to[2])
        h5 == stroke(h4)
    IN  Done(h5, Ok)

draw_rect(ctx, upper_left, bottom_right, color, fill_flag, checks) ==
    LET h1 == IF fill_flag
              THEN set_fill_style(Host(ctx), make_canvas_color(color))
              ELSE set_stroke_style(Host(ctx), make_canvas_color(color))
        w == I32Sub(bottom_right[1], upper_left[1], checks)
        ht == I32Sub(bottom_right[2], upper_left[2], checks)
    IN  IF w.panic \/ ht.panic THEN Done(h1, Panic)
        ELSE IF fill_flag
        THEN Done(fill_rect(h1, upper_left[1], upper_left[2], w.value, ht.value), Ok)
        ELSE Done(stroke_rect(h1, upper_left[1], upper_left[2], w.value, ht.value), Ok)

RECURSIVE LineToAll(_, _)
LineToAll(h, rest) ==
    IF rest = <<>> THEN h
    ELSE LineToAll(line_to(h, Head(rest)[1], Head(rest)[2]), Tail(rest))

\* variant: the stroke style is set before the path is begun, as draw_line does
draw_path_style_first(ctx, path, color) ==
    LET h1 == IF path # <<>>
              THEN begin_path(set_stroke_style(Host(ctx), make_canvas_color(color)))
              ELSE begin_path(Host(ctx))
        h2 == IF path # <<>>
              THEN LineToAll(move_to(h1, Head(path)[1], Head(path)[2]), Tail(path))
              ELSE h1
    IN  Done(stroke(h2), Ok)

\* variant: the stroke style is set whether or not there is a first point
draw_path_always_styles(ctx, path, color) ==
    LET h1 == set_stroke_style(begin_path(Host(ctx)), make_canvas_color(color))
        h2 == IF path # <<>>
              THEN LineToAll(move_to(h1, Head(path)[1], Head(path)[2]), Tail(path))
              ELSE h1
    IN  Done(stroke(h2), Ok)

draw_path(ctx, path, color) ==
    LET h1 == begin_path(Host(ctx))
        h2 == IF path # <<>>
              THEN LET start == Head(path)
                       s1 == set_stroke_style(h1, make_canvas_color(color))
                       s2 == move_to(s1, start[1], start[2])
                   IN  LineToAll(s2, Tail(path))
              ELSE h1
    IN  Done(stroke(h2), Ok)

\* variant: the arc's error is returned only after the path is rendered
draw_circle_late_error(ctx, center, radius, color, fill_flag, hostErr) ==
    LET h1 == IF fill_flag
              THEN set_fill_style(Host(ctx), make_canvas_color(color))
              ELSE set_stroke_style(Host(ctx), make_canvas_color(color))
        h2 == begin_path(h1)
        h3 == IF hostErr # "none"
              THEN arc_failed(h2, center[1], center[2], radius, 0, TwoPi)
              ELSE arc(h2, center[1], center[2], radius, 0, TwoPi)
        h4 == IF fill_flag THEN fill(h3) ELSE stroke(h3)
    IN  IF hostErr # "none" THEN Done(h4, DrawingError(hostErr)) ELSE Done(h4, Ok)

draw_circle(ctx, center, radius, color, fill_flag, hostErr) ==
    LET h1 == IF fill_flag
              THEN set_fill_style(Host(ctx), make_canvas_color(color))
              ELSE set_stroke_style(Host(ctx), make_canvas_color(color))
        h2 == begin_path(h1)
    IN  IF hostErr # "none"
        THEN Done(arc_failed(h2, center[1], center[2], radius, 0, TwoPi),
                  DrawingError(hostErr))
        ELSE LET h3 == arc(h2, center[1], center[2], radius, 0, TwoPi)
             IN  IF fill_flag THEN Done(fill(h3), Ok) ELSE Done(stroke(h3), Ok)

\* variant: the text is placed at pos without the font-size offset
draw_text_no_offset(ctx, text, font, pos, color, hostErr) ==
    LET h1 == set_text_baseline(Host(ctx), "bottom")
        h2 == set_fill_style(h1, make_canvas_color(color))
        h3 == set_font(h2, FontString(font))
        h4 == fill_text(h3, text, pos[1], pos[2])
    IN  IF hostErr # "none" THEN Done(h4, DrawingError(hostErr)) ELSE Done(h4, Ok)

draw_text(ctx, text, font, pos, color, hostErr) ==
    LET h1 == set_text_baseline(Host(ctx), "bottom")
        h2 == set_fill_style(h1, make_canvas_color(color))
        h3 == set_font(h2, FontString(font))
        h4 == fill_text(h3, text, pos[1], pos[2] + font.size)
    IN  IF hostErr # "none" THEN Done(h4, DrawingError(hostErr)) ELSE Done(h4, Ok)

-----------------------------------------------------------------------------
(* State machine *)

Init ==
    /\ env \in [window : BOOLEAN, document : BOOLEAN, context : ContextOutcomes]
    /\ overflowChecks \in BOOLEAN
    /\ backend = "None"
    /\ lookups = <<>>
    /\ canvas = DefaultSize
    /\ context = InitContext
    /\ last = [op |-> "none", args |-> <<>>]
    /\ calls = <<>>
    /\ painted = <<>>
    /\ leftover = FALSE
    /\ result = NoResult

\* the caller holds an adapter and no earlier call has aborted the program
Usable == backend = "Some" /\ result.kind # "Panic"

\* apply the outcome d of one operation
Apply(op, args, d) ==
    /\ last' = [op |-> op, args |-> args]
    /\ context' = d.h.ctx
    /\ calls' = d.h.calls
    /\ painted' = d.h.painted
    /\ leftover' = (context.path # <<>>)
    /\ result' = d.result
    /\ UNCHANGED <<env, overflowChecks, backend, lookups, canvas>>

New ==
    /\ backend = "None"
    /\ \E elem_id \in ElemIds :
        LET n == new(elem_id, env)
        IN  /\ backend' = n.backend
            /\ lookups' = n.lookups
            /\ last' = [op |-> "new", args |-> [elem_id |-> elem_id]]
            /\ calls' = <<>>
            /\ painted' = <<>>
            /\ leftover' = (context.path # <<>>)
            /\ result' = NoResult
            /\ UNCHANGED <<env, overflowChecks, canvas, context>>

GetSize ==
    /\ Usable
    /\ last' = [op |-> "get_size", args |-> <<>>]
    /\ calls' = <<>>
    /\ painted' = <<>>
    /\ leftover' = (context.path # <<>>)
    /\ result' = get_size(canvas)
    /\ UNCHANGED <<env, overflowChecks, backend, lookups, canvas, context>>

\* the host page resizes the canvas element
HostResize ==
    /\ Usable
    /\ \E s \in Sizes :
        /\ s # canvas
        /\ canvas' = s
        /\ last' = [op |-> "host_resize", args |-> s]
        /\ calls' = <<>>
        /\ painted' = <<>>
        /\ leftover' = (context.path # <<>>)
        /\ result' = NoResult
        /\ UNCHANGED <<env, overflowChecks, backend, lookups, context>>

Open == Usable /\ Apply("open", <<>>, open(context))

Close == Usable /\ Apply("close", <<>>, close(context))

DrawPixel ==
    /\ Usable
    /\ \E point \in PathPoints, color \in Colors :
        Apply("draw_pixel", [point |-> point, color |-> color],
              draw_pixel(context, point, color))

DrawLine ==
    /\ Usable
    /\ \E from \in PathPoints, to \in PathPoints, color \in Colors :
        Apply("draw_line", [from |-> from, to |-> to, color |-> color],
              draw_line(context, from, to, color))

DrawRect ==
    /\ Usable
    /\ \E upper_left \in Points, bottom_right \in Points, color \in Colors,
          fill_flag \in BOOLEAN :
        /\ upper_left # bottom_right
        /\ Apply("draw_rect",
              [upper_left |-> upper_left, bottom_right |-> bottom_right,
               color |-> color, fill |-> fill_flag],
              draw_rect(context, upper_left, bottom_right, color, fill_flag,
                           overflowChecks))

DrawPath ==
    /\ Usable
    /\ \E path \in Paths, color \in Colors :
        Apply("draw_path", [path |-> path, color |-> color],
              draw_path(context, path, color))

DrawCircle ==
    /\ Usable
    /\ \E center \in PathPoints, radius \in Radii, color \in Colors,
          fill_flag \in BOOLEAN, hostErr \in {"none"} \cup HostErrors :
        Apply("draw_circle",
              [center |-> center, radius |-> radius, color |-> color,
               fill |-> fill_flag, hostErr |-> hostErr],
              draw_circle(context, center, radius, color, fill_flag, hostErr))

DrawText ==
    /\ Usable
    /\ \E text \in Texts, font \in Fonts, pos \in PathPoints, color \in Colors,
          hostErr \in {"none"} \cup HostErrors :
        Apply("draw_text",
              [text |-> text, font |-> font, pos |-> pos, color |-> color,
               hostErr |-> hostErr],
              draw_text(context, text, font, pos, color, hostErr))

Next ==
    \/ New
    \/ GetSize
    \/ HostResize
    \/ Open
    \/ Close
    \/ DrawPixel
    \/ DrawLine
    \/ DrawRect
    \/ DrawPath
    \/ DrawCircle
    \/ DrawText

Spec == Init /\ [][Next]_vars

-----------------------------------------------------------------------------
(* Properties *)

BeginPathCall == Call("begin_path", <<>>)
StrokeCall == Call("stroke", <<>>)
FillCall == Call("fill", <<>>)
StrokeStyleCall(color) == Call("set_stroke_style", <<make_canvas_color(color)>>)
FillStyleCall(color) == Call("set_fill_style", <<make_canvas_color(color)>>)

IsSegment(c) == c.fn \in {"move_to", "line_to", "arc"}

LineToCalls(path) ==
    [i \in 1..(Len(path) - 1) |-> Call("line_to", <<path[i + 1][1], path[i + 1][2]>>)]

\* C1: draw_path over n >= 1 points issues begin_path, set_stroke_style with
\* the colour's rgba string, one move_to at the first point, n-1 line_to in
\* sequence order and one stroke, in this order, and returns success.
C1_DrawPathNonEmpty ==
    (last.op = "draw_path" /\ last.args.path # <<>>) =>
        LET path == last.args.path
        IN  /\ calls = <<BeginPathCall, StrokeStyleCall(last.args.color),
                         Call("move_to", <<path[1][1], path[1][2]>>)>>
                       \o LineToCalls(path) \o <<StrokeCall>>
            /\ Len(calls) = Len(path) + 3
            /\ result = Ok

C1_Witness ==
    /\ last.op = "draw_path"
    /\ last.args.path = <<<<0, 0>>, <<I32Max, 2>>, <<0, 0>>>>
    /\ last.args.color = HalfBlue
    /\ calls[2] = Call("set_stroke_style", <<"rgba(10,20,30,0.5)">>)
    /\ Len(SelectSeq(calls, LAMBDA c : c.fn = "line_to")) = 2
    /\ result = Ok

\* C2: draw_path over an empty sequence issues begin_path and stroke only,
\* returns success and leaves the stroke style as it was before the call.
C2_DrawPathEmpty ==
    [][(last'.op = "draw_path" /\ last'.args.path = <<>>) =>
          /\ calls' = <<BeginPathCall, StrokeCall>>
          /\ result' = Ok
          /\ context'.strokeStyle = context.strokeStyle]_vars

C2_Witness ==
    /\ last.op = "draw_path"
    /\ last.args.path = <<>>
    /\ last.args.color = Red
    /\ context.strokeStyle = make_canvas_color(HalfBlue)
    /\ calls = <<BeginPathCall, StrokeCall>>

InfallibleOps ==
    {"open", "close", "draw_pixel", "draw_line", "draw_rect", "draw_path"}

\* C3: only draw_circle and draw_text can return a drawing-error; open,
\* close, draw_pixel, draw_line, draw_rect and draw_path return success for
\* every argument value.
C3_OnlyCircleAndTextFail ==
    /\ result.kind = "DrawingError" => last.op \in {"draw_circle", "draw_text"}
    /\ last.op \in InfallibleOps => result = Ok

\* C4: draw_circle sets only the style matching its flag, then begin_path and
\* one arc from 0 to 2*pi; on success exactly one fill or stroke follows and
\* the call succeeds; on an arc failure the host value is returned wrapped in
\* a drawing-error and neither fill nor stroke is issued.
C4_DrawCircle ==
    last.op = "draw_circle" =>
        LET a == last.args
            style == IF a.fill THEN FillStyleCall(a.color) ELSE StrokeStyleCall(a.color)
            arcCall == Call("arc", <<a.center[1], a.center[2], a.radius, 0, TwoPi>>)
        IN  IF a.hostErr = "none"
            THEN /\ calls = <<style, BeginPathCall, arcCall,
                              IF a.fill THEN FillCall ELSE StrokeCall>>
                 /\ result = Ok
            ELSE /\ calls = <<style, BeginPathCall, arcCall>>
                 /\ painted = <<>>
                 /\ result = DrawingError(a.hostErr)

C4_Witness ==
    /\ last.op = "draw_circle"
    /\ last.args.hostErr = "IndexSizeError"
    /\ ~last.args.fill
    /\ result = [kind |-> "DrawingError", value |-> "IndexSizeError"]
    /\ Len(calls) = 3

\* C5: for all corner pairs draw_rect issues one rectangle call at upper_left
\* whose width and height are the exact component-wise differences, as
\* fill_rect after set_fill_style when fill is true and as stroke_rect after
\* set_stroke_style when it is false.
C5_DrawRectExact ==
    last.op = "draw_rect" =>
        LET a == last.args
            w == a.bottom_right[1] - a.upper_left[1]
            ht == a.bottom_right[2] - a.upper_left[2]
        IN  calls = IF a.fill
                    THEN <<FillStyleCall(a.color),
                           Call("fill_rect", <<a.upper_left[1], a.upper_left[2], w, ht>>)>>
                    ELSE <<StrokeStyleCall(a.color),
                           Call("stroke_rect", <<a.upper_left[1], a.upper_left[2], w, ht>>)>>

\* C6: draw_text sets the baseline to "bottom", the fill style to the colour's
\* rgba string and the font to "<s>px <n>", then issues one fill_text at
\* (x, y + s); a host failure is returned wrapped in a drawing-error with the
\* three settings already changed.
C6_DrawText ==
    last.op = "draw_text" =>
        LET a == last.args
            fontStr == ToString(a.font.size) \o "px " \o a.font.name
        IN  /\ calls = <<Call("set_text_baseline", <<"bottom">>),
                         FillStyleCall(a.color),
                         Call("set_font", <<fontStr>>),
                         Call("fill_text", <<a.text, a.pos[1], a.pos[2] + a.font.size>>)>>
            /\ result = IF a.hostErr = "none" THEN Ok ELSE DrawingError(a.hostErr)
            /\ context.textBaseline = "bottom"
            /\ context.fillStyle = make_canvas_color(a.color)
            /\ context.font = fontStr

C6_Witness ==
    /\ last.op = "draw_text"
    /\ last.args.hostErr # "none"
    /\ last.args.pos = <<I32Max, 2>>
    /\ result.kind = "DrawingError"
    /\ context.font = "12px Arial"
    /\ calls[4] = Call("fill_text", <<"hi", I32Max, 14>>)

AllLookups ==
    <<"window", "document", "get_element_by_id", "dyn_into_canvas",
      "get_context_2d", "dyn_into_context">>

\* which lookup steps of new(elem_id) succeed on the page e
StepOk(elem_id, e) ==
    <<e.window, e.document, ElementOf(elem_id) # "none",
      ElementOf(elem_id) = "canvas", e.context \notin {"error", "null"},
      e.context = "2d">>

FirstFailure(elem_id, e) ==
    IF \A i \in 1..6 : StepOk(elem_id, e)[i] THEN 0
    ELSE CHOOSE i \in 1..6 :
            /\ ~StepOk(elem_id, e)[i]
            /\ \A j \in 1..(i - 1) : StepOk(elem_id, e)[j]

\* C7: new(elem_id) returns an instance exactly when every lookup step
\* succeeds; at the first failing step it returns None without attempting the
\* later steps, and None is the same value whatever the cause.
C7_New ==
    last.op = "new" =>
        LET f == FirstFailure(last.args.elem_id, env)
        IN  /\ (backend = "Some") <=> (f = 0)
            /\ (backend = "None") <=> (f # 0)
            /\ lookups = SubSeq(AllLookups, 1, IF f = 0 THEN 6 ELSE f)
            /\ result = NoResult

C7_Witness ==
    /\ last.op = "new"
    /\ last.args.elem_id = "legend"
    /\ env.window /\ env.document /\ env.context = "2d"
    /\ backend = "None"
    /\ lookups = <<"window", "document", "get_element_by_id", "dyn_into_canvas">>

\* C8: get_size returns the canvas's width and height as they are at the time
\* of the call, issues no drawing call and changes no context state.
C8_GetSize ==
    [][last'.op = "get_size" =>
          /\ result' = [kind |-> "Size", value |-> <<canvas.width, canvas.height>>]
          /\ calls' = <<>>
          /\ context' = context
          /\ canvas' = canvas]_vars

C8_Witness ==
    /\ last.op = "get_size"
    /\ canvas # DefaultSize
    /\ result.value = <<640, 480>>
    /\ context.path # <<>>

\* C9: open and close return success in every state, issue no host call and
\* leave the context (styles, font, baseline, current path) and the canvas
\* unchanged, so the draw operations that follow act on the same state as
\* without them and remain callable.
C9_OpenCloseNoOp ==
    [][last'.op \in {"open", "close"} =>
          /\ result' = Ok
          /\ calls' = <<>>
          /\ painted' = <<>>
          /\ context' = context
          /\ canvas' = canvas
          /\ backend' = backend]_vars

C9_Witness ==
    /\ last.op = "close"
    /\ result = Ok
    /\ context.path # <<>>
    /\ context.fillStyle # InitContext.fillStyle
    /\ context.font # InitContext.font

PathOps == {"draw_line", "draw_path", "draw_circle"}

\* C10: every stroke or fill of the current path issued by draw_line,
\* draw_path or draw_circle renders exactly the segments added by that same
\* call, which all come after the call's begin_path.
C10_FreshPath ==
    last.op \in PathOps =>
        /\ Len(painted) <= 1
        /\ \A i \in DOMAIN painted : painted[i] = SelectSeq(calls, IsSegment)
        /\ \E b \in DOMAIN calls :
              /\ calls[b] = BeginPathCall
              /\ \A j \in DOMAIN calls : IsSegment(calls[j]) => b < j
        /\ (result = Ok) => Len(painted) = 1

C10_Witness ==
    /\ last.op = "draw_path"
    /\ leftover
    /\ Len(last.args.path) = 1
    /\ painted = <<<<Call("move_to", <<0, 0>>)>>>>

====
